---- MODULE Spec2Model ----
(***************************************************************************)
(* Model of src/libstd/sys_common/backtrace.rs: the global print lock,     *)
(* print/_print/_print_fmt (walk, resolve, format, write), log_enabled and *)
(* its ENABLED cache, and output_filename.                                 *)
(***************************************************************************)
EXTENDS Integers, Sequences, FiniteSets, TLC

(* ------------------------------ bounds --------------------------------- *)
\* threads that may call print / log_enabled
NThreads == 2
\* print calls started in one run of the concurrent specification
MaxCalls == 2
\* frames the walker offers to one print call
MaxStack == 3
\* frames the walker offers when several threads print
ShortStack == 1
\* symbol records the resolver yields for one frame
MaxFanout == 2
\* frames the walker can offer beyond MAX_NB_FRAMES in the deep specification
DeepExtra == 2
\* components of a path handed to output_filename
MaxComps == 3

(* ------------------------- program constants --------------------------- *)
\* const MAX_NB_FRAMES: usize = 100;
MAX_NB_FRAMES == 100

\* the literal searched for by sym.contains(..)
SENTINEL == "__rust_begin_short_backtrace"

Threads == 1..NThreads

\* Option<T>
None == <<>>
Some(x) == <<x>>

\* backtrace_rs::PrintFmt as used here
PrintFmts == {"Short", "Full"}

(* ----------------------------- symbol names ---------------------------- *)
\* symbol.name().and_then(|s| s.as_str()): absent, or a text given as its
\* chunks; the sentinel function's mangled name holds SENTINEL as one chunk.
NoName == None
PlainName == Some(<<"main">>)
SentinelName == Some(<<"std::sys_common::backtrace::", SENTINEL, "::h0">>)
Names == {NoName, PlainName, SentinelName}

\* sym.contains("__rust_begin_short_backtrace")
Contains(sym, pat) == \E i \in 1..Len(sym) : sym[i] = pat

\* if let Some(sym) = symbol.name()... { if sym.contains(SENTINEL) {..} }
IsSentinel(name) == name # None /\ Contains(name[1], SENTINEL)

RECURSIVE SeqsUpTo(_, _)
SeqsUpTo(S, n) ==
  IF n = 0 THEN {<<>>}
  ELSE LET prev == SeqsUpTo(S, n - 1)
       IN prev \cup {Append(s, x) : s \in {p \in prev : Len(p) = n - 1}, x \in S}

\* what resolve_frame_unsynchronized can deliver for one frame
FrameShapes == SeqsUpTo(Names, MaxFanout)
\* frames when several threads print: unresolved, or the sentinel (which Full
\* mode formats like any other symbol)
ShortShapes == {<<>>, <<SentinelName>>}
\* frames when the threads' progress is followed: the sentinel
FairShapes == {<<SentinelName>>}
\* frames when the working directory changes: one plain symbol (with a file name)
PlainShapes == {<<PlainName>>}
\* frames of the deep walk: one plain symbol, or the sentinel
DeepShapes == {<<PlainName>>, <<SentinelName>>}

VARIABLES
  cfgTest,      \* cfg!(test)
  target_os,    \* the build target: decides cfg!(target_os = "fuchsia"), cfg(unix), cfg(windows)
  LOCK,         \* static LOCK: Mutex; 0 = unlocked, else the holding thread
  ENABLED_STATE, \* static ENABLED: AtomicIsize (ENABLED is a TLA+ keyword)
  env,          \* RUST_BACKTRACE in the process environment (Option)
  cwd,          \* the process working directory (Option: current_dir().ok())
  sink,         \* what has been written to the writer w, in order
  ncalls,       \* print calls started so far
  nlocked,      \* print calls that got the lock so far (names the calls in sink)
  pc,           \* per thread: where it is
  call,         \* per thread: the name of its current print call, once it has the lock
  print_fmt,    \* per thread: the format argument of its print call
  cwdSnap,      \* per thread: let cwd = env::current_dir().ok()
  idx,          \* per thread: let mut idx
  res,          \* per thread: let mut res
  hit,          \* per thread: let mut hit
  stop,         \* per thread: let mut stop
  frame_index,  \* per thread: bt_fmt's entry counter (one per bt_fmt.frame())
  recs,         \* per thread: records the resolver has yet to deliver
  ret,          \* per thread: result of the last print call (Option)
  val,          \* per thread: log_enabled's val
  seen,         \* per thread: what log_enabled read from the environment
  lret,         \* per thread: result of the last log_enabled call (Option)
  obs,          \* per thread: observations of the current print call
  logObs,       \* observations of the log_enabled calls
  ofIn,         \* arguments of a call of output_filename (Option)
  ofOut         \* what that call handed to fmt, and its result (Option)

walkVars == <<print_fmt, cwdSnap, idx, res, hit, stop, frame_index, recs>>
printVars == <<LOCK, sink, ncalls, nlocked, call, print_fmt, cwdSnap, idx, res, hit, stop,
               frame_index, recs, ret, obs>>
logVars  == <<ENABLED_STATE, env, val, seen, lret, logObs>>
pathVars == <<ofIn, ofOut>>
vars == <<cfgTest, target_os, LOCK, ENABLED_STATE, env, cwd, sink, ncalls, nlocked,
          pc, call,
          print_fmt, cwdSnap, idx, res, hit, stop, frame_index, recs, ret,
          val, seen, lret, obs, logObs, ofIn, ofOut>>

(* --------------------------- observations ------------------------------ *)
\* What one print call has done so far; read by the properties only.
\*   offered   callback invocations by the walker
\*   nrec      symbol records delivered by the resolver, in callback order
\*   nsym      entries formatted from symbol records (bt_fmt.frame().symbol)
\*   firstSent position (in nrec order) of the first record whose name
\*             contains SENTINEL, 0 if none yet
\*   failed    some write or formatting step has returned Err
\*   afterFail a frame was walked or an entry formatted after the first Err
\*   simple    every frame so far resolved to exactly one sentinel-free record
\*   fan       records the resolver yields for the current frame
\*   frameNos  numbers given to the entries formatted for the current frame
\*   stopBy    why the walk ended: "" (not ended), "end", "cap", "sentinel", "error"
\*   cwdReads  calls of env::current_dir()
\*   frameRaw  calls of print_raw for the current frame
\*   finished  bt_fmt.finish() has returned Ok
ObsInit ==
  [offered |-> 0, nrec |-> 0, nsym |-> 0, firstSent |-> 0, failed |-> FALSE,
   afterFail |-> FALSE, simple |-> TRUE, fan |-> 0, frameNos |-> <<>>,
   stopBy |-> "", cwdReads |-> 0, frameRaw |-> 0, finished |-> FALSE]

Result(ok) == IF ok THEN "Ok" ELSE "Err"

\* one write to w, made by thread t in its call c.  kind: "context" for
\* add_context, "entry" for bt_fmt.frame().symbol(frame, symbol), "raw" for
\* bt_fmt.frame().print_raw(frame.ip(), None, None, None), "note".
\* no: the entry's number; dir: the directory handed to output_filename for
\* the entry's file name (None where no file name is printed); frame: which
\* frame of the walk the entry is for; rec: which of the call's symbol records
\* (both in order of delivery, 0 where there is none).
Written(t, c, kind, no, dir, frame, rec) ==
  [by |-> t, call |-> c, kind |-> kind, no |-> no, dir |-> dir,
   frame |-> frame, rec |-> rec]

\* print_path: output_filename(fmt, bows, print_fmt, cwd.as_ref()) with the
\* cwd the closure has captured
PathDirCurrent(t) == cwd
PathDir(t) == cwdSnap[t]

\* the write of thread t now
WriteOf(t, kind, no) ==
  Written(t, call[t], kind, no,
          IF kind = "entry" THEN Some(PathDir(t)) ELSE None,
          IF kind \in {"entry", "raw"} THEN obs[t].offered ELSE 0,
          IF kind = "entry" THEN obs[t].nrec + 1 ELSE 0)

\* a write that succeeds reaches the sink; one that fails leaves nothing
SinkAfterInFront(t, ok, kind, no) ==
  IF ok THEN <<WriteOf(t, kind, no)>> \o sink ELSE sink
SinkAfter(t, ok, kind, no) ==
  IF ok THEN Append(sink, WriteOf(t, kind, no)) ELSE sink

(* ------------------------------- lock() -------------------------------- *)
\* LOCK.lock() returns only once the mutex is free
AcquirableAlways(t) == TRUE
Acquirable(t) == LOCK = 0

\* impl Drop for Guard: LOCK.unlock(), on every way out of print's block
GuardDropOnSuccessOnly(t) == IF ret[t] = Some("Ok") THEN 0 ELSE LOCK
GuardDrop(t) == 0

(* ------------------------------- print --------------------------------- *)
\* if cfg!(test) { return Ok(()); }
EarlyReturnNever == FALSE
EarlyReturn == cfgTest

\* pub fn print(w, format): the cfg!(test) early return, else on to lock()
PrintCall(t, format, maxCalls) ==
  /\ pc[t] = "idle"
  /\ ncalls < maxCalls
  /\ ncalls' = ncalls + 1
  /\ print_fmt' = [print_fmt EXCEPT ![t] = format]
  /\ obs' = [obs EXCEPT ![t] = ObsInit]
  /\ IF EarlyReturn
       THEN /\ ret' = [ret EXCEPT ![t] = Some("Ok")]
            /\ pc' = pc
       ELSE /\ ret' = [ret EXCEPT ![t] = None]
            /\ pc' = [pc EXCEPT ![t] = "lock"]
  /\ UNCHANGED <<cfgTest, target_os, LOCK, cwd, sink, nlocked, call, cwdSnap, idx,
                 res, hit, stop, frame_index, recs>>
  /\ UNCHANGED logVars
  /\ UNCHANGED pathVars

\* let _lock = lock();
Lock(t) ==
  /\ pc[t] = "lock"
  /\ Acquirable(t)
  /\ LOCK' = t
  /\ nlocked' = nlocked + 1
  /\ call' = [call EXCEPT ![t] = nlocked + 1]
  /\ pc' = [pc EXCEPT ![t] = "cwd"]
  /\ UNCHANGED <<cfgTest, target_os, cwd, sink, ncalls, print_fmt, cwdSnap,
                 idx, res, hit, stop, frame_index, recs, ret, obs>>
  /\ UNCHANGED logVars
  /\ UNCHANGED pathVars

\* let cwd = env::current_dir().ok(); ... BacktraceFmt::new(..)
SnapshotCwd(t) ==
  /\ pc[t] = "cwd"
  /\ cwdSnap' = [cwdSnap EXCEPT ![t] = cwd]
  /\ frame_index' = [frame_index EXCEPT ![t] = 0]
  /\ obs' = [obs EXCEPT ![t].cwdReads = @ + 1]
  /\ pc' = [pc EXCEPT ![t] = "context"]
  /\ UNCHANGED <<cfgTest, target_os, LOCK, cwd, sink, ncalls, nlocked, call, print_fmt,
                 idx, res, hit, stop, recs, ret>>
  /\ UNCHANGED logVars
  /\ UNCHANGED pathVars

\* bt_fmt.add_context()?; let mut idx = 0; let mut res = Ok(());
AddContext(t) ==
  /\ pc[t] = "context"
  /\ \E ok \in BOOLEAN :
       /\ sink' = SinkAfter(t, ok, "context", 0)
       /\ obs' = [obs EXCEPT ![t].failed = ~ok]
       /\ IF ok
            THEN /\ pc' = [pc EXCEPT ![t] = "walk"]
                 /\ ret' = ret
            ELSE /\ pc' = [pc EXCEPT ![t] = "unlock"]
                 /\ ret' = [ret EXCEPT ![t] = Some("Err")]
  /\ idx' = [idx EXCEPT ![t] = 0]
  /\ res' = [res EXCEPT ![t] = "Ok"]
  /\ UNCHANGED <<cfgTest, target_os, LOCK, cwd, ncalls, nlocked, call, print_fmt, cwdSnap,
                 hit, stop, frame_index, recs>>
  /\ UNCHANGED logVars
  /\ UNCHANGED pathVars

\* if print_fmt == PrintFmt::Short && idx > MAX_NB_FRAMES { return false; }
OverCap(t) == print_fmt[t] = "Short" /\ idx[t] > MAX_NB_FRAMES

\* trace_unsynchronized calls the closure with the next frame: the cap check,
\* let mut hit = false; let mut stop = false; and the resolver is started
WalkerNext(t, depth, shapes) ==
  /\ pc[t] = "walk"
  /\ obs[t].offered < depth
  /\ IF OverCap(t)
       THEN /\ pc' = [pc EXCEPT ![t] = "after"]
            /\ obs' = [obs EXCEPT ![t].offered = @ + 1, ![t].stopBy = "cap"]
            /\ UNCHANGED <<hit, stop, recs>>
       ELSE /\ \E rs \in shapes :
                 /\ recs' = [recs EXCEPT ![t] = rs]
                 /\ obs' = [obs EXCEPT ![t].offered = @ + 1,
                                       ![t].afterFail = @ \/ obs[t].failed,
                                       ![t].simple =
                                          @ /\ Len(rs) = 1 /\ ~IsSentinel(rs[1]),
                                       ![t].fan = Len(rs),
                                       ![t].frameNos = <<>>,
                                       ![t].frameRaw = 0]
            /\ hit' = [hit EXCEPT ![t] = FALSE]
            /\ stop' = [stop EXCEPT ![t] = FALSE]
            /\ pc' = [pc EXCEPT ![t] = "resolve"]
  /\ UNCHANGED <<cfgTest, target_os, LOCK, cwd, sink, ncalls, nlocked, call, print_fmt,
                 cwdSnap, idx, res, frame_index, ret>>
  /\ UNCHANGED logVars
  /\ UNCHANGED pathVars

\* the walker has no further frame: trace_unsynchronized returns
WalkerEnd(t) ==
  /\ pc[t] = "walk"
  /\ pc' = [pc EXCEPT ![t] = "after"]
  /\ obs' = [obs EXCEPT ![t].stopBy = "end"]
  /\ UNCHANGED <<cfgTest, target_os, LOCK, cwd, sink, ncalls, nlocked, call, print_fmt,
                 cwdSnap, idx, res, hit, stop, frame_index, recs, ret>>
  /\ UNCHANGED logVars
  /\ UNCHANGED pathVars

\* the closure given to resolve_frame_unsynchronized, for one symbol record
ResolveSymbol(t) ==
  /\ pc[t] = "resolve"
  /\ recs[t] # <<>>
  /\ LET name == Head(recs[t])
         k == obs[t].nrec + 1
     IN /\ recs' = [recs EXCEPT ![t] = Tail(@)]
        /\ hit' = [hit EXCEPT ![t] = TRUE]
        /\ IF print_fmt[t] = "Short" /\ IsSentinel(name)
             THEN /\ stop' = [stop EXCEPT ![t] = TRUE]
                  /\ obs' = [obs EXCEPT ![t].nrec = k,
                               ![t].firstSent = IF @ = 0 THEN k ELSE @]
                  /\ UNCHANGED <<res, frame_index, sink>>
             ELSE /\ \E ok \in BOOLEAN :
                       /\ res' = [res EXCEPT ![t] = Result(ok)]
                       /\ sink' = SinkAfter(t, ok, "entry", frame_index[t])
                       /\ obs' = [obs EXCEPT ![t].nrec = k,
                                    ![t].nsym = @ + 1,
                                    ![t].firstSent =
                                       IF @ = 0 /\ IsSentinel(name) THEN k ELSE @,
                                    ![t].afterFail = @ \/ obs[t].failed,
                                    ![t].failed = @ \/ ~ok,
                                    ![t].frameNos = Append(@, frame_index[t])]
                  /\ frame_index' = [frame_index EXCEPT ![t] = @ + 1]
                  /\ stop' = stop
  /\ UNCHANGED <<cfgTest, target_os, LOCK, cwd, ncalls, nlocked, pc, call, print_fmt,
                 cwdSnap, idx, ret>>
  /\ UNCHANGED logVars
  /\ UNCHANGED pathVars

\* idx += 1;
IdxAfterFramePerEntry(t) == idx[t] + Len(obs[t].frameNos)
IdxAfterFrame(t) == idx[t] + 1

\* if !hit { res = bt_fmt.frame().print_raw(frame.ip(), None, None, None); }
UnresolvedAlways(t) == TRUE
Unresolved(t) == ~hit[t]

\* the rest of the walk closure once the resolver has returned:
\* if stop { return false; } if !hit { res = ..print_raw(..); } idx += 1; res.is_ok()
FrameEnd(t) ==
  /\ pc[t] = "resolve"
  /\ recs[t] = <<>>
  /\ IF stop[t]
       THEN /\ pc' = [pc EXCEPT ![t] = "after"]
            /\ obs' = [obs EXCEPT ![t].stopBy = "sentinel"]
            /\ UNCHANGED <<res, sink, frame_index, idx>>
       ELSE /\ IF Unresolved(t)
                 THEN \E ok \in BOOLEAN :
                        /\ res' = [res EXCEPT ![t] = Result(ok)]
                        /\ sink' = SinkAfter(t, ok, "raw", frame_index[t])
                        /\ obs' = [obs EXCEPT
                                     ![t].afterFail = @ \/ obs[t].failed,
                                     ![t].failed = @ \/ ~ok,
                                     ![t].frameNos = Append(@, frame_index[t]),
                                     ![t].frameRaw = @ + 1,
                                     ![t].stopBy = IF ok THEN "" ELSE "error"]
                        /\ frame_index' = [frame_index EXCEPT ![t] = @ + 1]
                 ELSE /\ obs' = [obs EXCEPT ![t].stopBy =
                                    IF res[t] = "Ok" THEN "" ELSE "error"]
                      /\ UNCHANGED <<res, sink, frame_index>>
            /\ idx' = [idx EXCEPT ![t] = IdxAfterFrame(t)]
            /\ pc' = [pc EXCEPT ![t] = IF res'[t] = "Ok" THEN "walk" ELSE "after"]
  /\ UNCHANGED <<cfgTest, target_os, LOCK, cwd, ncalls, nlocked, call, print_fmt, cwdSnap,
                 hit, stop, recs, ret>>
  /\ UNCHANGED logVars
  /\ UNCHANGED pathVars

\* if print_fmt == PrintFmt::Short { writeln!(fmt, "note: ...")?; }
NoteAlways(format) == TRUE
NoteWanted(format) == format = "Short"

\* res?; bt_fmt.finish()?;
AfterWalk(t) ==
  /\ pc[t] = "after"
  /\ IF res[t] = "Err"
       THEN /\ ret' = [ret EXCEPT ![t] = Some("Err")]
            /\ pc' = [pc EXCEPT ![t] = "unlock"]
            /\ obs' = obs
       ELSE \E ok \in BOOLEAN :
              /\ obs' = [obs EXCEPT ![t].failed = @ \/ ~ok, ![t].finished = ok]
              /\ IF ~ok
                   THEN /\ ret' = [ret EXCEPT ![t] = Some("Err")]
                        /\ pc' = [pc EXCEPT ![t] = "unlock"]
                   ELSE IF NoteWanted(print_fmt[t])
                     THEN /\ ret' = ret
                          /\ pc' = [pc EXCEPT ![t] = "note"]
                     ELSE /\ ret' = [ret EXCEPT ![t] = Some("Ok")]
                          /\ pc' = [pc EXCEPT ![t] = "unlock"]
  /\ UNCHANGED <<cfgTest, target_os, LOCK, cwd, sink, ncalls, nlocked, call, print_fmt,
                 cwdSnap, idx, res, hit, stop, frame_index, recs>>
  /\ UNCHANGED logVars
  /\ UNCHANGED pathVars

\* writeln!(fmt, "note: Some details are omitted, ...")?; Ok(())
Note(t) ==
  /\ pc[t] = "note"
  /\ \E ok \in BOOLEAN :
       /\ sink' = SinkAfter(t, ok, "note", 0)
       /\ obs' = [obs EXCEPT ![t].failed = @ \/ ~ok]
       /\ ret' = [ret EXCEPT ![t] = Some(Result(ok))]
  /\ pc' = [pc EXCEPT ![t] = "unlock"]
  /\ UNCHANGED <<cfgTest, target_os, LOCK, cwd, ncalls, nlocked, call, print_fmt, cwdSnap,
                 idx, res, hit, stop, frame_index, recs>>
  /\ UNCHANGED logVars
  /\ UNCHANGED pathVars

\* _print's result is print's result; _lock is dropped as print returns, and
\* the locals of _print_fmt are gone
Unlock(t) ==
  /\ pc[t] = "unlock"
  /\ LOCK' = GuardDrop(t)
  /\ pc' = [pc EXCEPT ![t] = "idle"]
  /\ cwdSnap' = [cwdSnap EXCEPT ![t] = None]
  /\ idx' = [idx EXCEPT ![t] = 0]
  /\ res' = [res EXCEPT ![t] = "Ok"]
  /\ hit' = [hit EXCEPT ![t] = FALSE]
  /\ stop' = [stop EXCEPT ![t] = FALSE]
  /\ frame_index' = [frame_index EXCEPT ![t] = 0]
  /\ recs' = [recs EXCEPT ![t] = <<>>]
  /\ obs' = [obs EXCEPT ![t] = ObsInit]
  /\ print_fmt' = [print_fmt EXCEPT ![t] = "Short"]
  /\ call' = [call EXCEPT ![t] = 0]
  /\ UNCHANGED <<cfgTest, target_os, cwd, sink, ncalls, nlocked, ret>>
  /\ UNCHANGED logVars
  /\ UNCHANGED pathVars

(* ----------------------------- log_enabled ----------------------------- *)
\* cfg!(target_os = "fuchsia")
FuchsiaNever == FALSE
Fuchsia == target_os = "fuchsia"

\* values of RUST_BACKTRACE: env::var_os gives None when it is not set
EnvValues == {None, Some("0"), Some(""), Some("full"), Some("1")}

\* `v as isize` for v: PrintFmt.  backtrace_rs declares
\*   pub enum PrintFmt { Short, Full, #[doc(hidden)] __Nonexhaustive }
\* with no explicit discriminants, so the cast yields the declaration index.
AsIsize(v) == IF v = "Short" THEN 0 ELSE 1

\* env::var_os("RUST_BACKTRACE").and_then(|x| ..)
ParseVar(x) ==
  IF x = None THEN None
  ELSE IF x[1] = "0" THEN None
  ELSE IF x[1] = "full" THEN Some("Full")
  ELSE Some("Short")

\* match val { Some(v) => v as isize, None => 1 }
Encode(v) == IF v = None THEN 1 ELSE AsIsize(v[1])

\* match ENABLED.load(..) { 1 => None, 2 => Some(Short), _ => Some(Full) }
Decode(n) == IF n = 1 THEN None ELSE IF n = 2 THEN Some("Short") ELSE Some("Full")

\* What the log_enabled calls have done; read by the properties only.
\*   first       result of the first call to complete (Option)
\*   firstRead   what that call read from the environment (Option)
\*   firstStored ENABLED when that call returned
\*   late[t]     t's current/last call started after a call had completed
\*   readEnv[t]  t's current/last call read the environment
\*   loaded[t]   t's current/last call loaded ENABLED
\*   heldAtStart[t]  the print call that held LOCK when t's current/last call
\*               started (0: none)
LogObsInit ==
  [first |-> None, firstRead |-> None, firstStored |-> 0,
   late |-> [t \in Threads |-> FALSE], readEnv |-> [t \in Threads |-> FALSE],
   loaded |-> [t \in Threads |-> FALSE],
   heldAtStart |-> [t \in Threads |-> 0]]

\* log_enabled calls no lock(): its steps wait for nothing
LogAwaitsLock(t) == LOCK = 0
LogAwaits(t) == TRUE

\* the bookkeeping of a call by t that returns r, having read `rd`, leaving
\* ENABLED at `st`
Completed(t, r, rd, st) ==
  IF logObs.first = None
    THEN [logObs EXCEPT !.first = Some(r), !.firstRead = rd, !.firstStored = st]
    ELSE logObs

\* log_enabled up to and including ENABLED.load(Ordering::SeqCst)
LogCall(t) ==
  /\ pc[t] = "idle"
  /\ LogAwaits(t)
  /\ LET started == [logObs EXCEPT !.late[t] = (logObs.first # None),
                                   !.readEnv[t] = FALSE,
                                   !.loaded[t] = ~Fuchsia,
                                   !.heldAtStart[t] =
                                      IF LOCK = 0 THEN 0 ELSE call[LOCK]]
     IN IF Fuchsia
          THEN /\ lret' = [lret EXCEPT ![t] = Some(Some("Full"))]
               /\ logObs' = [started EXCEPT
                    !.first = IF @ = None THEN Some(Some("Full")) ELSE @,
                    !.firstStored = IF logObs.first = None THEN ENABLED_STATE ELSE @]
               /\ pc' = pc
          ELSE IF ENABLED_STATE = 0
            THEN /\ lret' = [lret EXCEPT ![t] = None]
                 /\ logObs' = started
                 /\ pc' = [pc EXCEPT ![t] = "log_env"]
            ELSE /\ lret' = [lret EXCEPT ![t] = Some(Decode(ENABLED_STATE))]
                 /\ logObs' = [started EXCEPT
                      !.first = IF @ = None THEN Some(Decode(ENABLED_STATE)) ELSE @,
                      !.firstStored = IF logObs.first = None THEN ENABLED_STATE ELSE @]
                 /\ pc' = pc
  /\ val' = [val EXCEPT ![t] = None]
  /\ UNCHANGED <<cfgTest, target_os, ENABLED_STATE, env, cwd, seen>>
  /\ UNCHANGED printVars
  /\ UNCHANGED pathVars

\* let val = env::var_os("RUST_BACKTRACE").and_then(..)
LogReadEnv(t) ==
  /\ pc[t] = "log_env"
  /\ LogAwaits(t)
  /\ val' = [val EXCEPT ![t] = ParseVar(env)]
  /\ logObs' = [logObs EXCEPT !.readEnv[t] = TRUE]
  /\ seen' = [seen EXCEPT ![t] = env]
  /\ pc' = [pc EXCEPT ![t] = "log_store"]
  /\ UNCHANGED <<cfgTest, target_os, ENABLED_STATE, env, cwd, lret>>
  /\ UNCHANGED printVars
  /\ UNCHANGED pathVars

\* ENABLED.store(match val {..}, Ordering::SeqCst); val
LogStore(t) ==
  /\ pc[t] = "log_store"
  /\ LogAwaits(t)
  /\ ENABLED_STATE' = Encode(val[t])
  /\ lret' = [lret EXCEPT ![t] = Some(val[t])]
  /\ logObs' = Completed(t, val[t], Some(seen[t]), ENABLED_STATE')
  /\ pc' = [pc EXCEPT ![t] = "idle"]
  /\ UNCHANGED <<cfgTest, target_os, env, cwd, val, seen>>
  /\ UNCHANGED printVars
  /\ UNCHANGED pathVars

(* ------------------------ the rest of the process ---------------------- *)
\* some thread sets or removes RUST_BACKTRACE (env::set_var / remove_var)
SetEnv(v) ==
  /\ v # env
  /\ env' = v
  /\ UNCHANGED <<cfgTest, target_os, ENABLED_STATE, cwd, pc, val, lret, seen, logObs>>
  /\ UNCHANGED printVars
  /\ UNCHANGED pathVars

(* --------------------------- output_filename --------------------------- *)
\* A path is its root flag and its components; a component that is not
\* valid Unicode (bytes that are not UTF-8, an unpaired surrogate) is NonUnicode.
NonUnicode == "<FF>"
Comps == {"a", "b", NonUnicode}
Path(abs, comps) == [abs |-> abs, comps |-> comps]
Paths == {Path(a, c) : a \in BOOLEAN, c \in SeqsUpTo(Comps, MaxComps)}
\* env::current_dir() gives an absolute path, here shorter than the longest file
Dirs == {Path(TRUE, c) : c \in SeqsUpTo(Comps, MaxComps - 1)}
Cwds == {None} \cup {Some(d) : d \in Dirs}
\* Path::new("<unknown>")
UnknownPath == Path(FALSE, <<"<unknown>">>)

TargetOses == {"linux", "fuchsia", "windows", "wasi"}
\* cfg(unix), cfg(windows)
Unix == target_os \in {"linux", "fuchsia"}
Windows == target_os = "windows"
\* path::MAIN_SEPARATOR
MAIN_SEPARATOR == IF Windows THEN "\\" ELSE "/"

IsUnicode(comps) == \A i \in 1..Len(comps) : comps[i] # NonUnicode

\* let file: Cow<Path> = match bows { .. }: the four cfg'd arms
FileOf(bows) ==
  IF bows.enc = "Bytes"
    THEN IF Unix THEN bows.path
         ELSE IF IsUnicode(bows.path.comps) THEN bows.path ELSE UnknownPath
    ELSE IF Windows THEN bows.path ELSE UnknownPath

\* file.strip_prefix(&cwd): component-wise, the root being a component
StripPrefix(file, base) ==
  IF /\ file.abs = base.abs
     /\ Len(base.comps) <= Len(file.comps)
     /\ \A i \in 1..Len(base.comps) : file.comps[i] = base.comps[i]
    THEN Some(Path(FALSE, SubSeq(file.comps, Len(base.comps) + 1, Len(file.comps))))
    ELSE None

\* stripped.to_str()
ToStr(p) == IF IsUnicode(p.comps) THEN Some(p) ELSE None

\* the text of a path: its components, separated, after the root if any
RECURSIVE Joined(_)
Joined(comps) ==
  IF comps = <<>> THEN <<>>
  ELSE IF Len(comps) = 1 THEN <<comps[1]>>
  ELSE <<comps[1], MAIN_SEPARATOR>> \o Joined(Tail(comps))

\* file.display(): lossy, what is not Unicode becomes U+FFFD
Lossy(comps) == [i \in 1..Len(comps) |-> IF comps[i] = NonUnicode THEN "U+FFFD" ELSE comps[i]]
Display(p) == (IF p.abs THEN <<MAIN_SEPARATOR>> ELSE <<>>) \o Joined(Lossy(p.comps))

\* if print_fmt == PrintFmt::Short && file.is_absolute()
ShortensAnyMode(format, file) == file.abs
Shortens(format, file) == format = "Short" /\ file.abs

\* the text output_filename hands to fmt
output_filename(bows, format, dir) ==
  LET file == FileOf(bows)
      stripped == IF dir = None THEN None ELSE StripPrefix(file, dir[1])
      s == IF stripped = None THEN None ELSE ToStr(stripped[1])
  IN IF Shortens(format, file) /\ dir # None /\ stripped # None /\ s # None
       THEN <<".", MAIN_SEPARATOR>> \o Joined(s[1].comps)
       ELSE Display(file)

BowsValues == {[enc |-> e, path |-> p] : e \in {"Bytes", "Wide"}, p \in Paths}

\* a call output_filename(fmt, bows, print_fmt, cwd): its result is the write's
OutputFilename ==
  /\ ofIn # None
  /\ ofOut = None
  /\ \E ok \in BOOLEAN :
       ofOut' = Some([text |-> output_filename(ofIn[1].bows, ofIn[1].format, ofIn[1].cwd),
                      res |-> Result(ok)])
  /\ UNCHANGED <<cfgTest, target_os, cwd, pc, ofIn>>
  /\ UNCHANGED printVars
  /\ UNCHANGED logVars

\* some thread changes the working directory (env::set_current_dir)
Chdir(d) ==
  /\ d # cwd
  /\ cwd' = d
  /\ UNCHANGED <<cfgTest, target_os, pc>>
  /\ UNCHANGED printVars
  /\ UNCHANGED logVars
  /\ UNCHANGED pathVars

(* --------------------------- specifications ---------------------------- *)
InitWith(tests, oses, envs, dirs, inputs) ==
  /\ cfgTest \in tests
  /\ target_os \in oses
  /\ env \in envs
  /\ cwd \in dirs
  /\ ofIn \in inputs
  /\ ofOut = None
  /\ LOCK = 0
  /\ ENABLED_STATE = 0
  /\ sink = <<>>
  /\ ncalls = 0
  /\ nlocked = 0
  /\ pc = [t \in Threads |-> "idle"]
  /\ call = [t \in Threads |-> 0]
  /\ print_fmt = [t \in Threads |-> "Short"]
  /\ cwdSnap = [t \in Threads |-> None]
  /\ idx = [t \in Threads |-> 0]
  /\ res = [t \in Threads |-> "Ok"]
  /\ hit = [t \in Threads |-> FALSE]
  /\ stop = [t \in Threads |-> FALSE]
  /\ frame_index = [t \in Threads |-> 0]
  /\ recs = [t \in Threads |-> <<>>]
  /\ ret = [t \in Threads |-> None]
  /\ val = [t \in Threads |-> None]
  /\ seen = [t \in Threads |-> None]
  /\ lret = [t \in Threads |-> None]
  /\ obs = [t \in Threads |-> ObsInit]
  /\ logObs = LogObsInit

SomeDir == Some(Path(TRUE, <<"a">>))
\* working directories of the process: unreadable, /a, /
ProcessDirs == {None, SomeDir, Some(Path(TRUE, <<>>))}

\* the steps of print in thread t
PrintSteps(t, maxCalls, depth, shapes) ==
  \/ \E format \in PrintFmts : PrintCall(t, format, maxCalls)
  \/ Lock(t)
  \/ SnapshotCwd(t)
  \/ AddContext(t)
  \/ WalkerNext(t, depth, shapes)
  \/ WalkerEnd(t)
  \/ ResolveSymbol(t)
  \/ FrameEnd(t)
  \/ AfterWalk(t)
  \/ Note(t)
  \/ Unlock(t)

\* the steps of log_enabled in thread t
LogSteps(t) == LogCall(t) \/ LogReadEnv(t) \/ LogStore(t)

\* the whole process: print, log_enabled and the environment side by side.
\* print and log_enabled share no state (LOCK and the sink on one side,
\* ENABLED and the variable on the other), so the properties are checked under
\* the specifications of the parts below.
Init == InitWith(BOOLEAN, TargetOses, EnvValues, ProcessDirs, {None})
Next ==
  \/ \E t \in Threads : PrintSteps(t, MaxCalls, ShortStack, ShortShapes)
  \/ \E t \in Threads : LogSteps(t)
  \/ \E v \in EnvValues : SetEnv(v)
  \/ \E d \in ProcessDirs : Chdir(d)
Spec == Init /\ [][Next]_vars

\* threads printing to one sink, each walking a short stack
InitPrint == InitWith(BOOLEAN, {"linux"}, {None}, {SomeDir}, {None})
NextPrint == \E t \in Threads : PrintSteps(t, MaxCalls, ShortStack, ShortShapes)
SpecPrint == InitPrint /\ [][NextPrint]_vars

\* the steps of a print call that has been started: a thread that can take
\* one eventually does (it keeps being scheduled, the walker and the resolver
\* return, LOCK.lock() returns once the mutex stays free)
Run(t) ==
  \/ Lock(t)
  \/ SnapshotCwd(t)
  \/ AddContext(t)
  \/ WalkerNext(t, ShortStack, FairShapes)
  \/ WalkerEnd(t)
  \/ ResolveSymbol(t)
  \/ FrameEnd(t)
  \/ AfterWalk(t)
  \/ Note(t)
  \/ Unlock(t)
NextPrintFair == \E t \in Threads : PrintSteps(t, MaxCalls, ShortStack, FairShapes)
SpecPrintFair ==
  InitPrint /\ [][NextPrintFair]_vars /\ \A t \in Threads : WF_vars(Run(t))

\* print calls of one thread while the rest of the process changes the
\* working directory
InitCwd == InitWith(BOOLEAN, {"linux"}, {None}, ProcessDirs, {None})
NextCwd ==
  \/ PrintSteps(1, MaxCalls, ShortStack, PlainShapes)
  \/ \E d \in ProcessDirs : Chdir(d)
SpecCwd == InitCwd /\ [][NextCwd]_vars

\* one thread printing while the other threads call log_enabled,
\* RUST_BACKTRACE being set to full
Printer == CHOOSE t \in Threads : \A u \in Threads : t <= u
InitBoth == InitWith({FALSE}, {"linux"}, {Some("full")}, {SomeDir}, {None})
NextBoth ==
  \/ PrintSteps(Printer, MaxCalls, ShortStack, FairShapes)
  \/ \E t \in Threads \ {Printer} : LogSteps(t)
SpecBoth == InitBoth /\ [][NextBoth]_vars

\* one print call over every stack of up to MaxStack frames
InitWalk == InitWith(BOOLEAN, {"linux"}, {None}, {SomeDir}, {None})
NextWalk == PrintSteps(1, 1, MaxStack, FrameShapes)
SpecWalk == InitWalk /\ [][NextWalk]_vars

\* one print call over a stack deeper than MAX_NB_FRAMES
InitCap == InitWith(BOOLEAN, {"linux"}, {None}, {SomeDir}, {None})
NextCap == PrintSteps(1, 1, MAX_NB_FRAMES + DeepExtra, DeepShapes)
SpecCap == InitCap /\ [][NextCap]_vars

\* threads calling log_enabled while the environment changes
InitLog == InitWith({FALSE}, {"linux", "fuchsia"}, EnvValues, {SomeDir}, {None})
NextLog ==
  \/ \E t \in Threads : LogSteps(t)
  \/ \E v \in EnvValues : SetEnv(v)
SpecLog == InitLog /\ [][NextLog]_vars

\* threads calling log_enabled in an environment that nothing changes
InitLogFixed == InitWith({FALSE}, {"linux", "fuchsia"}, EnvValues, {SomeDir}, {None})
NextLogFixed == \E t \in Threads : LogSteps(t)
SpecLogFixed == InitLogFixed /\ [][NextLogFixed]_vars

\* output_filename applied to every input within the bounds
PathInputs ==
  {Some([bows |-> b, format |-> f, cwd |-> d]) :
     b \in BowsValues, f \in PrintFmts, d \in Cwds}
InitPath == InitWith({FALSE}, TargetOses \ {"fuchsia"}, {None}, {SomeDir}, PathInputs)
NextPath == OutputFilename
SpecPath == InitPath /\ [][NextPath]_vars

(* ------------------------------ properties ----------------------------- *)
\* between lock() returning and the drop of the guard
Critical == {"cwd", "context", "walk", "resolve", "after", "note", "unlock"}

\* the writes of call c, in sink order
WritesOf(c) == SelectSeq(sink, LAMBDA w : w.call = c)
EntriesOf(c) == SelectSeq(sink, LAMBDA w : w.call = c /\ w.kind \in {"entry", "raw"})
NotesOf(c) == SelectSeq(sink, LAMBDA w : w.call = c /\ w.kind = "note")

\* print call of t has finished its work and is about to return
Returning(t) == pc[t] = "unlock"

\* C1: at most one thread is between lock() and the drop of its guard, and
\* the writes of one print call are contiguous in the sink: once a write of
\* another call follows a write of a call, no later write is of that call.
C1_MutualExclusion ==
  /\ Cardinality({t \in Threads : pc[t] \in Critical}) <= 1
  /\ \A i \in 1..Len(sink) - 1 :
       sink[i + 1].call # sink[i].call =>
         \A k \in (i + 1)..Len(sink) : sink[k].call # sink[i].call

\* C1 witness: two threads have each written a block (context line and more)
\* to the same sink, and a third call is waiting or has been started
C1_Witness ==
  \E i, j \in 1..Len(sink) :
    /\ sink[i].by # sink[j].by
    /\ Len(WritesOf(sink[i].call)) >= 2
    /\ Len(WritesOf(sink[j].call)) >= 2

\* C7: the lock is held only by a thread that is inside print's critical
\* section: a thread that has returned from print (by any exit path) no
\* longer holds it, so the lock is free again for the next caller.
C7_LockReleased ==
  /\ LOCK = 0 \/ pc[LOCK] \in Critical
  /\ \A t \in Threads : pc[t] \notin Critical => LOCK # t

\* C7 witness: a thread has returned an error from print, and another thread
\* has acquired the lock and is writing
C7_Witness ==
  \E t, u \in Threads :
    /\ t # u
    /\ pc[t] = "idle" /\ ret[t] = Some("Err")
    /\ LOCK = u /\ pc[u] = "walk"
    /\ Len(sink) >= 1 /\ sink[Len(sink)].by = u

\* C3 (as claimed): Short mode, more than MAX_NB_FRAMES frames offered, each
\* resolving to one sentinel-free symbol, no write failing: exactly
\* MAX_NB_FRAMES entries and then the note; Full mode: an entry per frame, no note.
C3_FrameCap ==
  \A t \in Threads :
    (/\ Returning(t)
     /\ obs[t].offered > MAX_NB_FRAMES
     /\ obs[t].simple
     /\ ~obs[t].failed)
    => IF print_fmt[t] = "Short"
         THEN /\ Len(EntriesOf(call[t])) = MAX_NB_FRAMES
              /\ Len(NotesOf(call[t])) = 1
         ELSE /\ Len(EntriesOf(call[t])) = obs[t].offered
              /\ Len(NotesOf(call[t])) = 0

\* C4 (as claimed): Short mode, no write failing: if the k-th symbol record
\* delivered is the first whose name contains the sentinel, exactly k-1
\* entries are formatted from symbol records and print returns Ok; Full mode:
\* an entry is formatted for every symbol record.
C4_SentinelTruncation ==
  \A t \in Threads :
    (Returning(t) /\ ~obs[t].failed)
    => IF print_fmt[t] = "Short"
         THEN obs[t].firstSent > 0 =>
                /\ obs[t].nsym = obs[t].firstSent - 1
                /\ ret[t] = Some("Ok")
         ELSE obs[t].nsym = obs[t].nrec

\* C5 (as claimed): once a write or formatting step has failed, no further
\* frame is walked and no further entry formatted, and print returns Err;
\* print returns Ok only if no step failed.
C5_FirstErrorAborts ==
  \A t \in Threads :
    /\ ~obs[t].afterFail
    /\ (Returning(t) /\ obs[t].failed) => ret[t] = Some("Err")

\* numbers n, n+1, n+2, ...
Sequential(nos) == \A i \in 1..Len(nos) : nos[i] = nos[1] + (i - 1)

\* C8: idx advances by exactly one when the walk closure runs to its end for
\* a frame, whatever the number of symbol records, and by nothing in between;
\* a frame with n >= 1 records that ran to the end has had n sequentially
\* numbered entries formatted.
C8_IdxPerFrame ==
  [][\A t \in Threads :
       IF pc[t] = "resolve" /\ recs[t] = <<>> /\ ~stop[t] /\ pc'[t] # "resolve"
         THEN /\ idx'[t] = idx[t] + 1
              /\ obs[t].fan >= 1 =>
                   /\ Len(obs'[t].frameNos) = obs[t].fan
                   /\ Sequential(obs'[t].frameNos)
         ELSE pc[t] \in {"walk", "resolve"} => idx'[t] = idx[t]]_vars

\* C8 witness: a frame that resolved to several records has been completed;
\* its entries are numbered 1 and 2 while idx went from 1 to 2
C8_Witness ==
  \E t \in Threads :
    /\ pc[t] = "walk"
    /\ obs[t].fan >= 2
    /\ obs[t].frameNos = <<1, 2>>
    /\ idx[t] = 2

\* C9: a Short print call in which no step failed has written the note
\* exactly once, as its last write, however the walk ended; a Full print
\* call never writes the note.
C9_TrailingNote ==
  \A t \in Threads :
    /\ (pc[t] # "idle" /\ print_fmt[t] = "Full") => Len(NotesOf(call[t])) = 0
    /\ Len(NotesOf(call[t])) <= 1
    /\ (Returning(t) /\ ~obs[t].failed /\ print_fmt[t] = "Short") =>
         /\ Len(NotesOf(call[t])) = 1
         /\ WritesOf(call[t])[Len(WritesOf(call[t]))].kind = "note"
         /\ ret[t] = Some("Ok")

\* C9 witness: a Short walk stopped by the cap has written its note last
C9_Witness ==
  \E t \in Threads :
    /\ Returning(t)
    /\ print_fmt[t] = "Short"
    /\ obs[t].stopBy = "cap"
    /\ ~obs[t].failed
    /\ sink[Len(sink)].kind = "note"

\* what the documented states of ENABLED stand for
StateOf(r) == IF r = None THEN 1 ELSE IF r = Some("Short") THEN 2 ELSE 3

\* C2 (as claimed): not on fuchsia, once a first call has completed, ENABLED
\* has left Unset and keeps the value it had then, and every call started
\* later returns what the first call returned without reading the environment.
C2_CachedResult ==
  (~Fuchsia /\ logObs.first # None) =>
    /\ ENABLED_STATE # 0
    /\ ENABLED_STATE = logObs.firstStored
    /\ \A t \in Threads :
         (logObs.late[t] /\ lret[t] # None) =>
           /\ lret[t][1] = logObs.first[1]
           /\ ~logObs.readEnv[t]

\* the result the variable's value stands for
Expected(x) ==
  IF x = None \/ x = Some("0") THEN None
  ELSE IF x = Some("full") THEN Some("Full")
  ELSE Some("Short")

\* C6 (as claimed): not on fuchsia, the first call, which found ENABLED Unset
\* and read the variable, returns None for unset or "0", Some(Full) for
\* "full", Some(Short) otherwise, and leaves in ENABLED the state that
\* stands for the value it returned.
C6_FirstCallMapping ==
  (~Fuchsia /\ logObs.first # None /\ logObs.firstRead # None) =>
    /\ logObs.first[1] = Expected(logObs.firstRead[1])
    /\ logObs.firstStored = StateOf(logObs.first[1])

\* the path begins with the directory: same root, the directory's components first
BeginsWith(file, dir) ==
  /\ file.abs = dir.abs
  /\ Len(dir.comps) <= Len(file.comps)
  /\ SubSeq(file.comps, 1, Len(dir.comps)) = dir.comps
Remainder(file, dir) == SubSeq(file.comps, Len(dir.comps) + 1, Len(file.comps))

\* C10 (as claimed): the text is "." + separator + remainder exactly when the
\* mode is Short, the file path is absolute, a cwd snapshot exists and the
\* path begins with it; otherwise the path's own text.
C10_Original ==
  ofOut # None =>
    LET in == ofIn[1]
        file == FileOf(in.bows)
    IN ofOut[1].text =
         IF /\ in.format = "Short"
            /\ file.abs
            /\ in.cwd # None
            /\ BeginsWith(file, in.cwd[1])
           THEN <<".", MAIN_SEPARATOR>> \o Joined(Remainder(file, in.cwd[1]))
           ELSE Display(file)

\* C10 (amended): as claimed, with one more condition for the shortened form:
\* the remainder is valid Unicode; if it is not, the path's own text is written.
C10_Amended ==
  ofOut # None =>
    LET in == ofIn[1]
        file == FileOf(in.bows)
    IN ofOut[1].text =
         IF /\ in.format = "Short"
            /\ file.abs
            /\ in.cwd # None
            /\ BeginsWith(file, in.cwd[1])
            /\ IsUnicode(Remainder(file, in.cwd[1]))
           THEN <<".", MAIN_SEPARATOR>> \o Joined(Remainder(file, in.cwd[1]))
           ELSE Display(file)

\* C10 witness: cwd /a, file /a/b/a in Short mode has been written as ./b/a
C10_Witness ==
  /\ ofOut # None
  /\ ofIn[1].cwd = Some(Path(TRUE, <<"a">>))
  /\ ofIn[1].format = "Short"
  /\ FileOf(ofIn[1].bows) = Path(TRUE, <<"a", "b", "a">>)
  /\ ofOut[1].text = <<".", "/", "b", "/", "a">>

\* C11: in a test build (cfg!(test)) every print call returns Ok, whatever the
\* format, and touches nothing shared: the lock is never taken, the working
\* directory never read, no frame walked, no record resolved, nothing written.
C11_TestBuildNoEffect ==
  cfgTest =>
    /\ LOCK = 0
    /\ nlocked = 0
    /\ sink = <<>>
    /\ ncalls >= 1 => \E t \in Threads : ret[t] = Some("Ok")
    /\ \A t \in Threads :
         /\ pc[t] = "idle"
         /\ ret[t] \in {None, Some("Ok")}
         /\ cwdSnap[t] = None
         /\ obs[t].cwdReads = 0
         /\ obs[t].offered = 0
         /\ obs[t].nrec = 0

\* C11 witness: in a test build, a Short and a Full print call have returned Ok
C11_Witness ==
  /\ cfgTest
  /\ \E t, u \in Threads :
       /\ print_fmt[t] = "Short" /\ ret[t] = Some("Ok")
       /\ print_fmt[u] = "Full" /\ ret[u] = Some("Ok")

\* C12 (as claimed): the environment never changing, every value stored into
\* ENABLED is the same value, and all calls that have returned have returned
\* the same result, whether they computed it or read it from ENABLED.
C12_SameStoreSameResult ==
  /\ ENABLED_STATE \in {0, Encode(ParseVar(env))}
  /\ \A t, u \in Threads :
       (lret[t] # None /\ lret[u] # None) => lret[t] = lret[u]

\* C13 (as claimed): Short mode, no write failing: once a record of the current frame has had a
\* name containing the sentinel, the walk goes on to no further frame and no
\* entry has been or is formatted for the current frame, neither from the
\* records delivered before the sentinel record nor from those after it.
C13_SentinelFrameOmitted ==
  \A t \in Threads :
    (print_fmt[t] = "Short" /\ stop[t] /\ ~obs[t].failed) =>
      /\ pc[t] # "walk"
      /\ obs[t].frameNos = <<>>

\* C14: a frame for which the resolver yielded no record has had exactly one
\* entry formatted, the raw one (instruction pointer only), and if its write
\* succeeded the walk goes on: being unresolved is no error.  A frame for
\* which the resolver yielded a record never gets a raw entry.
C14_RawEntryIffUnresolved ==
  \A t \in Threads :
    /\ pc[t] = "resolve" => obs[t].frameRaw = 0
    /\ (obs[t].offered >= 1 /\ pc[t] # "resolve") =>
         IF obs[t].fan = 0
           THEN /\ obs[t].frameRaw = 1
                /\ Len(obs[t].frameNos) = 1
                /\ ~obs[t].failed =>
                     /\ res[t] = "Ok"
                     /\ obs[t].stopBy # "error"
                     /\ pc[t] \in {"walk", "after"} =>
                          sink[Len(sink)] =
                            Written(t, call[t], "raw", obs[t].frameNos[1], None,
                                    obs[t].offered, 0)
           ELSE obs[t].frameRaw = 0

\* C14 witness: after a resolved frame, an unresolved frame got its raw entry
\* as entry 1 and the walk continues
C14_Witness ==
  \E t \in Threads :
    /\ pc[t] = "walk"
    /\ obs[t].offered = 2
    /\ obs[t].fan = 0
    /\ Len(sink) = 3
    /\ sink[2].kind = "entry"
    /\ sink[3] = Written(t, call[t], "raw", 1, None, 2, 0)

\* C15: every started print call eventually returns, with Ok or Err, and a
\* held lock eventually becomes free; a call that is about to return has
\* failed to write, or its walk was ended by the walker, the cap or the
\* sentinel and everything after the walk was done.
C15_PrintTerminates ==
  /\ \A t \in Threads : (pc[t] # "idle") ~> (pc[t] = "idle" /\ ret[t] # None)
  /\ (LOCK # 0) ~> (LOCK = 0)
  /\ [](\A t \in Threads :
         Returning(t) =>
           \/ obs[t].failed /\ ret[t] = Some("Err")
           \/ /\ obs[t].stopBy \in {"end", "cap", "sentinel"}
              /\ ret[t] = Some("Ok")
              /\ NoteWanted(print_fmt[t]) => sink[Len(sink)].kind = "note")

\* C15 witness: every call that could be started has returned, one of them
\* with Err after another thread had written, and the lock is free
C15_Witness ==
  /\ ncalls = MaxCalls
  /\ LOCK = 0
  /\ \A t \in Threads : pc[t] = "idle"
  /\ \E t, u \in Threads :
       /\ ret[t] = Some("Err")
       /\ ret[u] = Some("Ok")
       /\ Len(sink) >= 2
       /\ sink[1].by = u
       /\ sink[Len(sink)].by = t

\* C16: in a build for fuchsia every log_enabled call returns Some(Full)
\* at once, whatever RUST_BACKTRACE is: no call loads ENABLED or reads the
\* environment, and ENABLED is never stored to.
C16_FuchsiaBypass ==
  target_os = "fuchsia" =>
    /\ ENABLED_STATE = 0
    /\ \A t \in Threads :
         /\ pc[t] = "idle"
         /\ lret[t] \in {None, Some(Some("Full"))}
         /\ ~logObs.loaded[t]
         /\ ~logObs.readEnv[t]
         /\ seen[t] = None
         /\ val[t] = None
    /\ logObs.first \in {None, Some(Some("Full"))}

\* C16 witness: on fuchsia with RUST_BACKTRACE=0, every thread has called
\* log_enabled and got Some(Full)
C16_Witness ==
  /\ target_os = "fuchsia"
  /\ env = Some("0")
  /\ \A t \in Threads : lret[t] = Some(Some("Full"))

\* C17 (as claimed): whenever the walk closure returns, it returns false
\* (stop) exactly when the mode is Short and idx is over MAX_NB_FRAMES, or the
\* mode is Short and a record of this frame contained the sentinel, or some
\* formatting step of this or an earlier entry has failed; else true (continue).
C17_StopExactlyWhen ==
  [][\A t \in Threads :
       LET capReturn == pc[t] = "walk" /\ obs'[t].stopBy = "cap"
           endReturn == pc[t] = "resolve" /\ pc'[t] # "resolve"
           stopped == pc'[t] = "after"
           continued == pc'[t] = "walk"
           due == \/ print_fmt[t] = "Short" /\ idx[t] > MAX_NB_FRAMES
                  \/ print_fmt[t] = "Short" /\ stop[t]
                  \/ obs'[t].failed
       IN (capReturn \/ endReturn) =>
            /\ stopped <=> due
            /\ continued <=> ~due]_vars

\* C18: a print call that is not in a test build reads the working directory
\* exactly once, holding the lock and before the first frame is walked; the
\* value read is the process's working directory at that moment (not an
\* earlier call's), and every entry of the call is handed that one snapshot,
\* whatever the working directory has become since.
C18_CwdSnapshot ==
  /\ [](\A t \in Threads :
         /\ pc[t] \in {"idle", "lock", "cwd"} => obs[t].cwdReads = 0
         /\ pc[t] = "cwd" => LOCK = t /\ obs[t].offered = 0
         /\ pc[t] \in Critical \ {"cwd"} =>
              /\ obs[t].cwdReads = 1
              /\ \A i \in 1..Len(sink) :
                   (sink[i].call = call[t] /\ sink[i].kind = "entry") =>
                     sink[i].dir = Some(cwdSnap[t]))
  /\ [][\A t \in Threads :
         /\ obs'[t].cwdReads # obs[t].cwdReads =>
              \/ pc'[t] = "idle" /\ obs'[t].cwdReads = 0
              \/ pc[t] = "cwd" /\ cwdSnap'[t] = cwd
         /\ (pc[t] \in Critical \ {"cwd"} /\ pc'[t] \in Critical) =>
              cwdSnap'[t] = cwdSnap[t]]_vars

\* C18 witness: the second call of a thread walks with a snapshot that
\* differs both from the first call's and from what the working directory
\* has become, and its entry carries its own snapshot
C18_Witness ==
  \E t \in Threads :
    /\ pc[t] = "walk"
    /\ call[t] = 2
    /\ cwd # cwdSnap[t]
    /\ \E i, j \in 1..Len(sink) :
         /\ sink[i].call = 1 /\ sink[i].kind = "entry"
         /\ sink[j].call = 2 /\ sink[j].kind = "entry"
         /\ sink[i].dir # sink[j].dir
         /\ sink[j].dir = Some(cwdSnap[t])

\* an entry of the walk, from a symbol record or raw
IsEntry(w) == w.kind \in {"entry", "raw"}

\* C19: the writes of one print call are in this order: the context line
\* first and only first; then the entries, in the order the walker delivers
\* the frames and, within a frame, the resolver delivers the records, with
\* rising numbers; then finish; then, in Short mode only, the note, last.
\* No entry is written before the context line, after finish or after the note.
C19_WriteOrder ==
  /\ [](\A t \in Threads :
         call[t] # 0 =>
           LET w == WritesOf(call[t])
           IN /\ \A i \in 1..Len(w) : (w[i].kind = "context") <=> (i = 1)
              /\ \A i \in 1..Len(w) :
                   w[i].kind = "note" =>
                     /\ i = Len(w)
                     /\ print_fmt[t] = "Short"
                     /\ obs[t].finished
              /\ \A i, j \in 1..Len(w) :
                   (i < j /\ IsEntry(w[i]) /\ IsEntry(w[j])) =>
                     /\ w[i].no < w[j].no
                     /\ \/ w[i].frame < w[j].frame
                        \/ w[i].frame = w[j].frame /\ w[i].rec < w[j].rec)
  /\ [][\A t \in Threads :
         (obs[t].finished /\ obs'[t].finished) =>
           EntriesOf(call[t])' = EntriesOf(call[t])]_vars

\* C19 witness: a Short call has written the context line, two entries for
\* the two records of its first frame, a raw entry for its second frame, and
\* the note
C19_Witness ==
  \E t \in Threads :
    /\ Returning(t)
    /\ Len(sink) = 5
    /\ sink[1].kind = "context"
    /\ sink[2].kind = "entry" /\ sink[2].frame = 1 /\ sink[2].rec = 1
    /\ sink[3].kind = "entry" /\ sink[3].frame = 1 /\ sink[3].rec = 2
    /\ sink[4].kind = "raw" /\ sink[4].frame = 2
    /\ sink[5].kind = "note"

\* inside log_enabled
InLog == {"log_env", "log_store"}

\* C20: log_enabled never takes or waits for the print lock: the lock is
\* never held by a thread that is inside log_enabled, and whoever holds the
\* lock, a thread that is not printing can start log_enabled and a thread
\* inside log_enabled can take its next step.
C20_LogNeedsNoLock ==
  /\ LOCK # 0 => pc[LOCK] \notin InLog
  /\ \A t \in Threads :
       /\ pc[t] = "idle" => ENABLED LogCall(t)
       /\ pc[t] = "log_env" => ENABLED LogReadEnv(t)
       /\ pc[t] = "log_store" => ENABLED LogStore(t)

\* C20 witness: a log_enabled call that started while a print call held the
\* lock has read the environment, stored and returned, and that same print
\* call still holds the lock
C20_Witness ==
  \E t \in Threads :
    /\ pc[t] = "idle"
    /\ lret[t] = Some(Some("Full"))
    /\ logObs.readEnv[t]
    /\ logObs.heldAtStart[t] # 0
    /\ LOCK # 0
    /\ LOCK # t
    /\ call[LOCK] = logObs.heldAtStart[t]
====
